---- MODULE Spec2Model ----
(***************************************************************************)
(* A model of the chess rules engine of py-ascii-chess: the board          *)
(* (board.py), the pieces (piece.py), the move application (move.py) and   *)
(* the half-move counter of the console game (ascii_chess.py).             *)
(***************************************************************************)
EXTENDS Integers, Sequences, FiniteSets, TLC

\* ------------------------------------------------------------------------
\* common.py
\* ------------------------------------------------------------------------
WHITE == "white"
BLACK == "black"

\* FILES holds the letters 'a'..'h'; a file is modelled by its number, the
\* value Square.file() returns (FILES.index(file) + 1).
FILES == 1..8
RANKS == 1..8

\* A square is the pair <<file, rank>>; equality is by file and rank.
Square == FILES \X RANKS

File(s) == s[1]
Rank(s) == s[2]

\* Python's None where a square is expected (a king-location field before
\* placement, a pawn without en-passant target), and the ValueError of the
\* Square constructor; both differ from every square.
None == <<0, 0>>
SquareError == <<-1, -1>>

\* Square.fromFileAndRank with an integer file: FILES[file - 1] is a Python
\* list index, so the indices -8..-1 wrap around to the end of the list.
fromFileAndRank(file, rank) ==
    IF (file - 1) \in -8..7 /\ rank \in RANKS
    THEN <<((file - 1) % 8) + 1, rank>>
    ELSE SquareError

Abs(x) == IF x < 0 THEN -x ELSE x

\* Python's range(a, b, step) for step = 1 or step = -1, as a sequence.
Range(a, b, step) ==
    IF step > 0
    THEN [i \in 1..(IF b > a THEN b - a ELSE 0) |-> a + (i - 1)]
    ELSE [i \in 1..(IF a > b THEN a - b ELSE 0) |-> a - (i - 1)]

horizontal_move_generator(start, to) ==
    LET file_diff == File(to) - File(start)
        step == IF file_diff > 0 THEN 1 ELSE -1
        fs == Range(File(start) + step, File(to) + step, step)
    IN  [i \in 1..Len(fs) |-> fromFileAndRank(fs[i], Rank(start))]

vertical_move_generator(start, to) ==
    LET rank_diff == Rank(to) - Rank(start)
        step == IF rank_diff > 0 THEN 1 ELSE -1
        rs == Range(Rank(start) + step, Rank(to) + step, step)
    IN  [i \in 1..Len(rs) |-> fromFileAndRank(File(to), rs[i])]

Min(a, b) == IF a < b THEN a ELSE b

\* Mutant: the ranges begin at the start square and stop before the end.
diagonal_move_generator_from_start(start, to) ==
    LET file_step == IF File(to) > File(start) THEN 1 ELSE -1
        rank_step == IF Rank(to) > Rank(start) THEN 1 ELSE -1
        fs == Range(File(start), File(to), file_step)
        rs == Range(Rank(start), Rank(to), rank_step)
    IN  [i \in 1..Min(Len(fs), Len(rs)) |-> fromFileAndRank(fs[i], rs[i])]

diagonal_move_generator(start, to) ==
    LET file_step == IF File(to) > File(start) THEN 1 ELSE -1
        rank_step == IF Rank(to) > Rank(start) THEN 1 ELSE -1
        fs == Range(File(start) + file_step, File(to) + file_step, file_step)
        rs == Range(Rank(start) + rank_step, Rank(to) + rank_step, rank_step)
    IN  [i \in 1..Min(Len(fs), Len(rs)) |-> fromFileAndRank(fs[i], rs[i])]

\* ------------------------------------------------------------------------
\* piece.py: the pieces.  A piece object is identified by its kind, its
\* colour and the file it is created on by Board.setup_initial_position.
\* ------------------------------------------------------------------------
PAWN == "pawn"
ROOK == "rook"
KNIGHT == "knight"
BISHOP == "bishop"
QUEEN == "queen"
KING == "king"

Piece(kind, color, home) == [kind |-> kind, color |-> color, home |-> home]

NoPiece == [kind |-> "none", color |-> "none", home |-> 0]

\* Mutant: a second king stands on the queen's square.
BackRank_two_kings ==
    <<ROOK, KNIGHT, BISHOP, KING, KING, BISHOP, KNIGHT, ROOK>>

BackRank ==
    <<ROOK, KNIGHT, BISHOP, QUEEN, KING, BISHOP, KNIGHT, ROOK>>

Pieces ==
    {Piece(PAWN, c, f) : c \in {WHITE, BLACK}, f \in FILES}
        \cup {Piece(BackRank[f], c, f) : c \in {WHITE, BLACK}, f \in FILES}

Pawns == {p \in Pieces : p.kind = PAWN}

get_color(p) == p.color
is_white(p) == p.color = WHITE
is_same_color(p, other) == p.color = other.color

\* ------------------------------------------------------------------------
\* board.py: queries.  A board value w carries the square mapping, the two
\* king-location fields and the per-piece attributes of the piece objects.
\* ------------------------------------------------------------------------
is_empty(w, square) == w.squares[square] = NoPiece

get_piece(w, square) == w.squares[square]

is_piece_of_type_and_color(w, square, piece_type, color) ==
    IF is_empty(w, square)
    THEN FALSE
    ELSE LET p == get_piece(w, square)
         IN  p.kind = piece_type /\ get_color(p) = color

is_king(w, square, color) == is_piece_of_type_and_color(w, square, KING, color)
is_rook(w, square, color) == is_piece_of_type_and_color(w, square, ROOK, color)
is_pawn(w, square, color) == is_piece_of_type_and_color(w, square, PAWN, color)

is_any_pawn(w, square) ==
    ~is_empty(w, square) /\ get_piece(w, square).kind = PAWN

is_piece_of_opposite_color(w, square, piece) ==
    ~is_empty(w, square) /\ ~is_same_color(get_piece(w, square), piece)

add_piece(w, p, s) == [w EXCEPT !.squares[s] = p]

\* Mutant: the entry of the square is kept.
remove_piece_kept(w, s) == w

\* del self._squares[s]; the callers below test for the KeyError of an
\* absent key before they use it.
remove_piece(w, s) == [w EXCEPT !.squares[s] = NoPiece]

save_state(w) ==
    [squares |-> w.squares, white_king |-> w.white_king, black_king |-> w.black_king]

\* Mutant: the snapshot shares the dictionary of the board (save_state without
\* copy()), so restoring brings back the king-location fields only.
restore_state_shared_squares(w, state) ==
    [w EXCEPT !.white_king = state.white_king,
              !.black_king = state.black_king]

restore_state(w, state) ==
    [w EXCEPT !.squares = state.squares,
              !.white_king = state.white_king,
              !.black_king = state.black_king]

\* Board.is_king_in_check is defined after the pieces' coverage rules below.

\* ------------------------------------------------------------------------
\* piece.py: the rules of the pieces.
\* ------------------------------------------------------------------------
\* Mutant: the flag is left as it was (set_has_moved with moved = False as
\* the default).
set_has_moved_not_set(w, p) == w

set_has_moved(w, p) == [w EXCEPT !.has_moved[p] = TRUE]

Piece_has_moved(w, p) == w.has_moved[p]

set_en_passant_square(w, p, square) == [w EXCEPT !.en_passant[p] = square]

\* A move generator returns None or a generator of squares.
NoGenerator == [is_none |-> TRUE, moves |-> <<>>]
Generator(moves) == [is_none |-> FALSE, moves |-> moves]

Rook_move_generator(start, to) ==
    LET rank_diff == Rank(start) - Rank(to)
        file_diff == File(start) - File(to)
    IN  IF rank_diff # 0 /\ file_diff # 0
        THEN NoGenerator
        ELSE IF rank_diff = 0
             THEN Generator(horizontal_move_generator(start, to))
             ELSE Generator(vertical_move_generator(start, to))

Bishop_move_generator(start, to) ==
    LET file_diff == File(to) - File(start)
        rank_diff == Rank(to) - Rank(start)
    IN  IF file_diff = 0 \/ rank_diff = 0
        THEN NoGenerator
        ELSE IF Abs(file_diff) # Abs(rank_diff)
             THEN NoGenerator
             ELSE Generator(diagonal_move_generator(start, to))

\* Mutant: the queen moves along ranks and files only.
Queen_move_generator_as_rook(start, to) ==
    LET rank_diff == Rank(to) - Rank(start)
        file_diff == File(to) - File(start)
    IN  IF rank_diff = 0
        THEN (IF Abs(file_diff) > 0 THEN Generator(horizontal_move_generator(start, to)) ELSE NoGenerator)
        ELSE IF file_diff = 0
             THEN (IF Abs(rank_diff) > 0 THEN Generator(vertical_move_generator(start, to)) ELSE NoGenerator)
             ELSE NoGenerator

Queen_move_generator(start, to) ==
    LET rank_diff == Rank(to) - Rank(start)
        file_diff == File(to) - File(start)
    IN  IF rank_diff = 0
        THEN (IF Abs(file_diff) > 0 THEN Generator(horizontal_move_generator(start, to)) ELSE NoGenerator)
        ELSE IF file_diff = 0
             THEN (IF Abs(rank_diff) > 0 THEN Generator(vertical_move_generator(start, to)) ELSE NoGenerator)
             ELSE IF Abs(rank_diff) = Abs(file_diff)
                  THEN Generator(diagonal_move_generator(start, to))
                  ELSE NoGenerator

\* Pawn, Knight and King return None.
move_generator(p, start, to) ==
    CASE p.kind = ROOK -> Rook_move_generator(start, to)
      [] p.kind = BISHOP -> Bishop_move_generator(start, to)
      [] p.kind = QUEEN -> Queen_move_generator(start, to)
      [] OTHER -> NoGenerator

\* The loop of Piece.is_covering_square over the generated squares, from the
\* i-th on: reaching the target is True, a piece met before it is a break.
RECURSIVE covering_loop(_, _, _, _)
covering_loop(w, moves, target, i) ==
    IF i > Len(moves)
    THEN FALSE
    ELSE IF moves[i] = target
         THEN TRUE
         ELSE IF ~is_empty(w, moves[i])
              THEN FALSE
              ELSE covering_loop(w, moves, target, i + 1)

Piece_is_covering_square(w, p, square, target) ==
    LET moves == move_generator(p, square, target)
    IN  IF moves.is_none THEN FALSE ELSE covering_loop(w, moves.moves, target, 1)

Pawn_is_covering_square(w, p, square, target) ==
    LET req_rank_diff == IF is_white(p) THEN 1 ELSE -1
    IN  (Rank(target) - Rank(square) = req_rank_diff)
            /\ (Abs(File(target) - File(square)) = 1)

Knight_is_covering_square(w, p, square, target) ==
    LET file_diff == Abs(File(target) - File(square))
        rank_diff == Abs(Rank(target) - Rank(square))
    IN  IF file_diff = 1
        THEN rank_diff = 2
        ELSE IF rank_diff = 1 THEN file_diff = 2 ELSE FALSE

King_is_covering_square(w, p, square, target) ==
    IF square = target
    THEN FALSE
    ELSE Abs(File(target) - File(square)) <= 1 /\ Abs(Rank(target) - Rank(square)) <= 1

is_covering_square(w, p, square, target) ==
    CASE p.kind = PAWN -> Pawn_is_covering_square(w, p, square, target)
      [] p.kind = KNIGHT -> Knight_is_covering_square(w, p, square, target)
      [] p.kind = KING -> King_is_covering_square(w, p, square, target)
      [] OTHER -> Piece_is_covering_square(w, p, square, target)

Piece_is_valid_move(w, p, start, to) ==
    is_covering_square(w, p, start, to) /\ is_empty(w, to)

Piece_is_valid_capture(w, p, start, to) ==
    is_covering_square(w, p, start, to) /\ is_piece_of_opposite_color(w, to, p)

\* Mutant: the square a double step passes over is not looked at.
Pawn_is_valid_move_jumping(w, p, start, to) ==
    LET rank_diff == Rank(to) - Rank(start)
    IN  /\ is_empty(w, to)
        /\ File(to) = File(start)
        /\ IF is_white(p)
           THEN rank_diff = 1 \/ (rank_diff = 2 /\ Rank(start) = 2)
           ELSE rank_diff = -1 \/ (rank_diff = -2 /\ Rank(start) = 7)

Pawn_is_valid_move(w, p, start, to) ==
    IF ~is_empty(w, to)
    THEN FALSE
    ELSE
    LET from_rank == Rank(start)
        to_rank == Rank(to)
        rank_diff == to_rank - from_rank
        file_diff == File(to) - File(start)
    IN  IF rank_diff = 0 \/ Abs(rank_diff) > 2
        THEN FALSE
        ELSE IF Abs(file_diff) > 1
        THEN FALSE
        ELSE IF file_diff = 0
        THEN IF ~is_empty(w, to)
             THEN FALSE
             ELSE IF is_white(p)
                  THEN (rank_diff = 1)
                        \/ (rank_diff = 2 /\ from_rank = 2
                              /\ is_empty(w, fromFileAndRank(File(start), 3)))
                  ELSE (rank_diff = -1)
                        \/ (rank_diff = -2 /\ from_rank = 7
                              /\ is_empty(w, fromFileAndRank(File(start), 6)))
        ELSE IF is_empty(w, to)
             THEN FALSE
             ELSE IF is_same_color(p, get_piece(w, to))
                  THEN FALSE
                  ELSE IF is_white(p) THEN rank_diff = 1 ELSE rank_diff = -1

Pawn_is_valid_capture(w, p, start, to) ==
    IF (w.en_passant[p] # None) /\ (to = w.en_passant[p])
    THEN TRUE
    ELSE Pawn_is_covering_square(w, p, start, to) /\ is_piece_of_opposite_color(w, to, p)

\* Mutant: the range stops one square early, the square next to the rook is
\* not looked at.
is_path_clear_but_last(w, rank, end_file) ==
    LET start_file == 5
        step == IF end_file > start_file THEN 1 ELSE -1
        fs == Range(start_file + step, end_file - step, step)
    IN  \A i \in 1..Len(fs) : is_empty(w, fromFileAndRank(fs[i], rank))

is_path_clear_for_castling(w, rank, end_file) ==
    LET start_file == 5
        step == IF end_file > start_file THEN 1 ELSE -1
        fs == Range(start_file + step, end_file, step)
    IN  \A i \in 1..Len(fs) : is_empty(w, fromFileAndRank(fs[i], rank))

\* Mutant: the king's own has-moved flag is not looked at.
King_is_valid_move_forgetful(w, p, start, to) ==
    IF start = to
    THEN FALSE
    ELSE IF Abs(File(to) - File(start)) <= 1 /\ Abs(Rank(to) - Rank(start)) <= 1
    THEN is_empty(w, to)
    ELSE
    LET rank == IF is_white(p) THEN 1 ELSE 8
    IN  IF ~((Rank(start) = rank /\ Rank(to) = rank)
               /\ (File(start) = 5 /\ (File(to) = 1 \/ File(to) = 8)))
        THEN FALSE
        ELSE IF ~is_rook(w, to, get_color(p))
        THEN FALSE
        ELSE IF Piece_has_moved(w, get_piece(w, to))
        THEN FALSE
        ELSE is_path_clear_for_castling(w, rank, File(to))

King_is_valid_move(w, p, start, to) ==
    IF start = to
    THEN FALSE
    ELSE IF Abs(File(to) - File(start)) <= 1 /\ Abs(Rank(to) - Rank(start)) <= 1
    THEN is_empty(w, to)
    ELSE
    LET rank == IF is_white(p) THEN 1 ELSE 8
    IN  IF ~((Rank(start) = rank /\ Rank(to) = rank)
               /\ (File(start) = 5 /\ (File(to) = 1 \/ File(to) = 8)))
        THEN FALSE
        ELSE IF Piece_has_moved(w, p) \/ ~is_rook(w, to, get_color(p))
        THEN FALSE
        ELSE IF Piece_has_moved(w, get_piece(w, to))
        THEN FALSE
        ELSE is_path_clear_for_castling(w, rank, File(to))

is_valid_move(w, p, start, to) ==
    CASE p.kind = PAWN -> Pawn_is_valid_move(w, p, start, to)
      [] p.kind = KING -> King_is_valid_move(w, p, start, to)
      [] OTHER -> Piece_is_valid_move(w, p, start, to)

is_valid_capture(w, p, start, to) ==
    CASE p.kind = PAWN -> Pawn_is_valid_capture(w, p, start, to)
      [] OTHER -> Piece_is_valid_capture(w, p, start, to)

\* ------------------------------------------------------------------------
\* board.py: check detection, en-passant reset, the initial position.
\* ------------------------------------------------------------------------
\* Mutant: the pieces of the king's own color count as well.
is_king_in_check_any_color(w, color) ==
    LET square == IF color = WHITE THEN w.white_king ELSE w.black_king
    IN  IF square = None
        THEN FALSE
        ELSE \E s \in Square :
                /\ w.squares[s] # NoPiece
                /\ is_covering_square(w, w.squares[s], s, square)

is_king_in_check(w, color) ==
    LET square == IF color = WHITE THEN w.white_king ELSE w.black_king
    IN  IF square = None
        THEN FALSE
        ELSE \E s \in Square :
                /\ w.squares[s] # NoPiece
                /\ get_color(w.squares[s]) # color
                /\ is_covering_square(w, w.squares[s], s, square)

\* Mutant: no en-passant square is cleared.
clear_en_passant_squares_none(w) == w

\* Only the pawns standing on the board are visited.
clear_en_passant_squares(w) ==
    LET on_board == {w.squares[s] : s \in Square} \cap Pawns
    IN  [w EXCEPT !.en_passant =
            [p \in Pawns |-> IF p \in on_board THEN None ELSE w.en_passant[p]]]

setup_initial_position ==
    [s \in Square |->
        CASE Rank(s) = 2 -> Piece(PAWN, WHITE, File(s))
          [] Rank(s) = 7 -> Piece(PAWN, BLACK, File(s))
          [] Rank(s) = 1 -> Piece(BackRank[File(s)], WHITE, File(s))
          [] Rank(s) = 8 -> Piece(BackRank[File(s)], BLACK, File(s))
          [] OTHER -> NoPiece]

initial_position ==
    [squares |-> setup_initial_position,
     white_king |-> <<5, 1>>,
     black_king |-> <<5, 8>>,
     has_moved |-> [p \in Pieces |-> FALSE],
     en_passant |-> [p \in Pawns |-> None]]

\* ------------------------------------------------------------------------
\* move.py: Move(from_square, to_square, capture) and Castling.
\* ------------------------------------------------------------------------
Move(from_square, to_square, capture) ==
    [castling |-> FALSE, from |-> from_square, to |-> to_square, capture |-> capture]

Castling(from_square, to_square, capture) ==
    [castling |-> TRUE, from |-> from_square, to |-> to_square, capture |-> capture]

\* The outcome of update_board: "ok" or the exception raised, and the board
\* as the call leaves it.
Ok(w) == [result |-> "ok", reason |-> "ok", w |-> w]
Raise(exception, reason, w) == [result |-> exception, reason |-> reason, w |-> w]

\* Mutant: the color of the piece on the origin square is not looked at.
Move_get_piece_any_color(w, m, expected_color) ==
    IF is_empty(w, m.from)
    THEN [reason |-> "no piece", piece |-> NoPiece]
    ELSE [reason |-> "ok", piece |-> get_piece(w, m.from)]

Move_get_piece(w, m, expected_color) ==
    IF is_empty(w, m.from)
    THEN [reason |-> "no piece", piece |-> NoPiece]
    ELSE LET p == get_piece(w, m.from)
         IN  IF get_color(p) # expected_color
             THEN [reason |-> "wrong color", piece |-> NoPiece]
             ELSE [reason |-> "ok", piece |-> p]

is_en_passant(w, m) ==
    is_any_pawn(w, m.from) /\ is_empty(w, m.to) /\ (File(m.from) # File(m.to))

\* Mutant: the captured pawn is left where it is.
check_en_passant_no_removal(w, m, piece) == [error |-> "ok", w |-> w]

\* board.remove_piece(target_square) raises KeyError when the square behind
\* the destination is empty.
check_en_passant(w, m, piece) ==
    IF is_en_passant(w, m)
    THEN LET target_rank == IF is_white(piece) THEN Rank(m.to) - 1 ELSE Rank(m.to) + 1
             target_square == fromFileAndRank(File(m.to), target_rank)
         IN  IF target_square = SquareError
             THEN [error |-> "ValueError", w |-> w]
             ELSE IF is_empty(w, target_square)
                  THEN [error |-> "KeyError", w |-> w]
                  ELSE [error |-> "ok", w |-> remove_piece(w, target_square)]
    ELSE [error |-> "ok", w |-> w]

\* The body of the loop over the neighbouring files.
set_en_passant_on_side(w, m, piece, target_square, f) ==
    IF f >= 1 /\ f <= 8
    THEN LET sq == fromFileAndRank(f, Rank(m.to))
             opposite_color == IF is_white(piece) THEN BLACK ELSE WHITE
         IN  IF is_pawn(w, sq, opposite_color)
             THEN set_en_passant_square(w, get_piece(w, sq), target_square)
             ELSE w
    ELSE w

update_en_passant_squares(w, m, piece) ==
    LET w1 == clear_en_passant_squares(w)
    IN  IF piece.kind # PAWN
        THEN w1
        ELSE IF Abs(Rank(m.to) - Rank(m.from)) # 2
        THEN w1
        ELSE LET target_rank == IF is_white(piece) THEN Rank(m.to) - 1 ELSE Rank(m.to) + 1
                 target_square == fromFileAndRank(File(m.to), target_rank)
                 w2 == set_en_passant_on_side(w1, m, piece, target_square, File(m.to) - 1)
             IN  set_en_passant_on_side(w2, m, piece, target_square, File(m.to) + 1)

update_king_position(w, m, piece) ==
    IF piece.kind = KING
    THEN IF is_white(piece)
         THEN [w EXCEPT !.white_king = m.to]
         ELSE [w EXCEPT !.black_king = m.to]
    ELSE w

\* Mutant: the piece is marked as moved before the self-check guard.
Move_update_board_marking_first(w, m, expected_color) ==
    LET state == save_state(w)
        g == Move_get_piece(w, m, expected_color)
        piece == g.piece
        valid == IF m.capture
                 THEN is_valid_capture(w, piece, m.from, m.to)
                 ELSE is_valid_move(w, piece, m.from, m.to)
        c == IF m.capture THEN check_en_passant(w, m, piece) ELSE [error |-> "ok", w |-> w]
        w2 == remove_piece(c.w, m.from)
        w3 == add_piece(w2, piece, m.to)
        w4 == update_king_position(w3, m, piece)
        w5 == IF ~m.capture THEN update_en_passant_squares(w4, m, piece) ELSE w4
    IN  IF g.reason # "ok"
        THEN Raise("ValueError", g.reason, w)
        ELSE IF ~valid
        THEN Raise("ValueError", "illegal", w)
        ELSE IF c.error # "ok"
        THEN Raise(c.error, "en passant", c.w)
        ELSE IF is_king_in_check(w4, expected_color)
        THEN Raise("InvalidMoveError", "king in check",
                   set_has_moved(restore_state(w4, state), piece))
        ELSE Ok(set_has_moved(w5, piece))

Move_update_board(w, m, expected_color) ==
    LET state == save_state(w)
        g == Move_get_piece(w, m, expected_color)
        piece == g.piece
        valid == IF m.capture
                 THEN is_valid_capture(w, piece, m.from, m.to)
                 ELSE is_valid_move(w, piece, m.from, m.to)
        c == IF m.capture THEN check_en_passant(w, m, piece) ELSE [error |-> "ok", w |-> w]
        w2 == remove_piece(c.w, m.from)
        w3 == add_piece(w2, piece, m.to)
        w4 == update_king_position(w3, m, piece)
        w5 == IF ~m.capture THEN update_en_passant_squares(w4, m, piece) ELSE w4
    IN  IF g.reason # "ok"
        THEN Raise("ValueError", g.reason, w)
        ELSE IF ~valid
        THEN Raise("ValueError", "illegal", w)
        ELSE IF c.error # "ok"
        THEN Raise(c.error, "en passant", c.w)
        ELSE IF is_king_in_check(w4, expected_color)
        THEN Raise("InvalidMoveError", "king in check", restore_state(w4, state))
        ELSE Ok(set_has_moved(w5, piece))

king_side(color) ==
    LET rank == IF color = WHITE THEN 1 ELSE 8
    IN  Castling(fromFileAndRank(5, rank), fromFileAndRank(8, rank), FALSE)

queen_side(color) ==
    LET rank == IF color = WHITE THEN 1 ELSE 8
    IN  Castling(fromFileAndRank(5, rank), fromFileAndRank(1, rank), FALSE)

\* Some piece of by_color covers the square s on the board w.
covered_on(w, s, by_color) ==
    \E t \in Square :
        /\ ~is_empty(w, t)
        /\ get_color(get_piece(w, t)) = by_color
        /\ is_covering_square(w, get_piece(w, t), t, s)

\* The square the king passes over in the castling m.
transit_square(m) == <<IF File(m.to) = 8 THEN 6 ELSE 4, Rank(m.from)>>

\* Mutant: castling is refused when the transit square is covered.
Castling_update_board_transit_tested(w, m, expected_color) ==
    IF is_king(w, m.from, expected_color)
    THEN LET king == get_piece(w, m.from)
         IN  IF is_valid_move(w, king, m.from, m.to)
             THEN IF is_king_in_check(w, expected_color)
                     \/ covered_on(w, transit_square(m),
                                   IF expected_color = WHITE THEN BLACK ELSE WHITE)
                  THEN Raise("InvalidMoveError", "castling in check", w)
                  ELSE LET rook == get_piece(w, m.to)
                           new_king_file == IF File(m.to) = 8 THEN 7 ELSE 3
                           new_rook_file == IF new_king_file = 7 THEN 6 ELSE 4
                           rank == Rank(m.from)
                           w1 == add_piece(w, king, fromFileAndRank(new_king_file, rank))
                           w2 == add_piece(w1, rook, fromFileAndRank(new_rook_file, rank))
                           w3 == remove_piece(w2, m.from)
                           w4 == remove_piece(w3, m.to)
                           w5 == set_has_moved(w4, king)
                           w6 == set_has_moved(w5, rook)
                           w7 == clear_en_passant_squares(w6)
                       IN  Ok(update_king_position(w7, m, king))
             ELSE Raise("InvalidMoveError", "castling not allowed", w)
    ELSE Raise("InvalidMoveError", "king not standing", w)

Castling_update_board(w, m, expected_color) ==
    IF is_king(w, m.from, expected_color)
    THEN LET king == get_piece(w, m.from)
         IN  IF is_valid_move(w, king, m.from, m.to)
             THEN IF is_king_in_check(w, expected_color)
                  THEN Raise("InvalidMoveError", "castling in check", w)
                  ELSE LET rook == get_piece(w, m.to)
                           new_king_file == IF File(m.to) = 8 THEN 7 ELSE 3
                           new_rook_file == IF new_king_file = 7 THEN 6 ELSE 4
                           rank == Rank(m.from)
                           w1 == add_piece(w, king, fromFileAndRank(new_king_file, rank))
                           w2 == add_piece(w1, rook, fromFileAndRank(new_rook_file, rank))
                           w3 == remove_piece(w2, m.from)
                           w4 == remove_piece(w3, m.to)
                           w5 == set_has_moved(w4, king)
                           w6 == set_has_moved(w5, rook)
                           w7 == clear_en_passant_squares(w6)
                       IN  Ok(update_king_position(w7, m, king))
             ELSE Raise("InvalidMoveError", "castling not allowed", w)
    ELSE Raise("InvalidMoveError", "king not standing", w)

update_board(w, m, expected_color) ==
    IF m.castling
    THEN Castling_update_board(w, m, expected_color)
    ELSE Move_update_board(w, m, expected_color)

\* ------------------------------------------------------------------------
\* Text.  A text is the sequence of its characters; the operators below
\* are the string operations the parser uses.
\* ------------------------------------------------------------------------
\* The letters of common.py's FILES, in order.
FILE_NAMES == <<"a", "b", "c", "d", "e", "f", "g", "h">>

DIGITS == <<"0", "1", "2", "3", "4", "5", "6", "7", "8", "9">>

IndexIn(seq, c) == IF \E i \in DOMAIN seq : seq[i] = c
                   THEN CHOOSE i \in DOMAIN seq : seq[i] = c /\ \A j \in 1..(i - 1) : seq[j] # c
                   ELSE 0

Contains(input, c) == \E i \in DOMAIN input : input[i] = c

\* input[:n] and input[n:]
Take(input, n) == SubSeq(input, 1, Min(n, Len(input)))
Drop(input, n) == SubSeq(input, n + 1, Len(input))

\* input.index(c), counted from 0 as Python does.
index(input, c) == IndexIn(input, c) - 1

\* input.replace(c, d)
replace(input, c, d) == [i \in DOMAIN input |-> IF input[i] = c THEN d ELSE input[i]]

\* The first two parts of input.split(c); the input holds c.
split(input, c) ==
    LET first == Take(input, index(input, c))
        rest == Drop(input, index(input, c) + 1)
        second == IF Contains(rest, c) THEN Take(rest, index(rest, c)) ELSE rest
    IN  <<first, second>>

RECURSIVE lstrip(_)
lstrip(text) == IF text # <<>> /\ Head(text) = " " THEN lstrip(Tail(text)) ELSE text

RECURSIVE rstrip(_)
rstrip(text) ==
    IF text # <<>> /\ text[Len(text)] = " " THEN rstrip(Take(text, Len(text) - 1)) ELSE text

strip(text) == rstrip(lstrip(text))

\* int(text) for a text of decimal digits; -1 stands for the ValueError of
\* every other text.
RECURSIVE int(_)
int(text) ==
    IF text = <<>> \/ \E i \in DOMAIN text : IndexIn(DIGITS, text[i]) = 0
    THEN -1
    ELSE IF Len(text) = 1
         THEN IndexIn(DIGITS, text[1]) - 1
         ELSE 10 * int(Take(text, Len(text) - 1)) + (IndexIn(DIGITS, text[Len(text)]) - 1)

\* str(rank) for a rank number of the board or next to it.
str(n) == IF n \in 0..9 THEN <<DIGITS[n + 1]>> ELSE <<"-">>

\* Square(coordinate): the square a text names, SquareError for ValueError.
Square_init(coordinate) ==
    LET file == Take(coordinate, 1)
        rank == int(strip(Drop(coordinate, 1)))
    IN  IF file = <<>> \/ IndexIn(FILE_NAMES, file[1]) = 0
        THEN SquareError
        ELSE IF rank \notin RANKS
        THEN SquareError
        ELSE <<IndexIn(FILE_NAMES, file[1]), rank>>

\* Square.__str__
\* Mutant: the rank is written before the file.
Square_str_rank_first(s) == str(Rank(s)) \o <<FILE_NAMES[File(s)]>>

Square_str(s) == <<FILE_NAMES[File(s)]>> \o str(Rank(s))

\* Square.__hash__: the hash of the pair of the file letter and the rank,
\* modelled by the pair.
Square_hash(s) == <<FILE_NAMES[File(s)], Rank(s)>>

\* Square.__eq__: the same file letter and the same rank.
Square_eq(s, other) ==
    (FILE_NAMES[File(s)] = FILE_NAMES[File(other)]) /\ (Rank(s) = Rank(other))

\* Square.fromFileAndRank for a file given by its letter.
fromFileNameAndRank(file, rank) == Square_init(file \o str(rank))

\* ------------------------------------------------------------------------
\* board.py: the notation parser.
\* ------------------------------------------------------------------------
PIECE_TYPES ==
    [c \in {"K", "Q", "R", "B", "N", "P"} |->
        CASE c = "K" -> KING [] c = "Q" -> QUEEN [] c = "R" -> ROOK
          [] c = "B" -> BISHOP [] c = "N" -> KNIGHT [] c = "P" -> PAWN]

\* The (square, piece) pairs of the pieces of the given type and color.
collect_pieces_of_type_and_color(w, piece_type, color) ==
    {<<s, w.squares[s]>> : s \in {t \in Square :
        /\ w.squares[t] # NoPiece
        /\ w.squares[t].kind = piece_type
        /\ w.squares[t].color = color}}

is_capture(w, m) ==
    IF is_en_passant(w, m)
    THEN TRUE
    ELSE IF is_empty(w, m.from) \/ is_empty(w, m.to)
    THEN FALSE
    ELSE ~is_same_color(get_piece(w, m.from), get_piece(w, m.to))

\* The outcome of a parse: the move returned or the exception raised, and
\* the board as the call leaves it.
NoParsedMove == Move(None, None, FALSE)
Parsed(m, w) == [result |-> "ok", move |-> m, w |-> w]
ParseRaise(exception, w) == [result |-> exception, move |-> NoParsedMove, w |-> w]

\* Mutant: the parser clears the en-passant targets it has looked at.
parse_capturing_pawn_move_clearing(w, input, expected_color) ==
    ParseRaise("InvalidMoveError", clear_en_passant_squares(w))

parse_capturing_pawn_move(w, input, expected_color) ==
    LET target_square == Square_init(Drop(input, 2))
        pawn_file == Take(input, 1)
        pawn_rank == IF expected_color = WHITE
                     THEN Rank(target_square) - 1 ELSE Rank(target_square) + 1
        from_square == fromFileNameAndRank(pawn_file, pawn_rank)
    IN  IF target_square = SquareError
        THEN ParseRaise("ValueError", w)
        ELSE IF from_square = SquareError
        THEN ParseRaise("ValueError", w)
        ELSE IF is_pawn(w, from_square, expected_color)
                /\ is_valid_capture(w, get_piece(w, from_square), from_square, target_square)
        THEN Parsed(Move(from_square, target_square, TRUE), w)
        ELSE ParseRaise("InvalidMoveError", w)

\* The branch of parse_move for "<PieceLetter><target>".
parse_piece_move(w, input, expected_color, capture) ==
    LET to_square == Square_init(Drop(input, 1))
        piece_type == PIECE_TYPES[input[1]]
        pieces == collect_pieces_of_type_and_color(w, piece_type, expected_color)
        candidates == {p \in pieces :
                          IF capture
                          THEN is_valid_capture(w, p[2], p[1], to_square)
                          ELSE is_valid_move(w, p[2], p[1], to_square)}
    IN  IF to_square = SquareError
        THEN ParseRaise("ValueError", w)
        ELSE IF Cardinality(candidates) = 0
        THEN ParseRaise("InvalidMoveError", w)
        ELSE IF Cardinality(candidates) = 1
        THEN Parsed(Move((CHOOSE p \in candidates : TRUE)[1], to_square, capture), w)
        ELSE ParseRaise("InvalidMoveError", w)

\* The branch of parse_move for "<square>-<square>".
parse_square_move(w, input) ==
    LET parts == split(input, "-")
        f == Square_init(strip(parts[1]))
        t == Square_init(strip(parts[2]))
    IN  IF f = SquareError \/ t = SquareError
        THEN ParseRaise("ValueError", w)
        ELSE Parsed(Move(f, t, FALSE), w)

RECURSIVE parse_move(_, _, _, _)

parse_capturing_move(w, input, expected_color) ==
    LET ind == index(input, "x")
        r == IF ind = 1
             THEN IF input[1] \in DOMAIN PIECE_TYPES
                  THEN parse_move(w, Take(input, 1) \o Drop(input, 2), expected_color, TRUE)
                  ELSE parse_capturing_pawn_move(w, input, expected_color)
             ELSE IF ind = 2
             THEN parse_move(w, replace(input, "x", "-"), expected_color, TRUE)
             ELSE ParseRaise("InvalidMoveError", w)
    IN  IF r.result # "ok"
        THEN r
        ELSE IF ind = 1 /\ input[1] \notin DOMAIN PIECE_TYPES
        THEN r
        ELSE IF ~is_capture(r.w, r.move)
        THEN ParseRaise("InvalidMoveError", r.w)
        ELSE r

\* Mutant: a run of four characters is not reinterpreted.
parse_move_no_run(w, input, expected_color, capture) ==
    IF input = <<"0", "-", "0">> \/ input = <<"O", "-", "O">>
    THEN Parsed(king_side(expected_color), w)
    ELSE IF input = <<"0", "-", "0", "-", "0">> \/ input = <<"O", "-", "O", "-", "O">>
    THEN Parsed(queen_side(expected_color), w)
    ELSE IF Contains(input, " ")
    THEN ParseRaise("InvalidMoveError", w)
    ELSE IF Contains(input, "-")
    THEN parse_square_move(w, input)
    ELSE IF Contains(input, "x")
    THEN parse_capturing_move(w, input, expected_color)
    ELSE LET text == IF Len(input) = 2 THEN <<"P">> \o input ELSE input
         IN  IF text # <<>> /\ text[1] \in DOMAIN PIECE_TYPES
             THEN parse_piece_move(w, text, expected_color, capture)
             ELSE ParseRaise("InvalidMoveError", w)

parse_move(w, input, expected_color, capture) ==
    IF input = <<"0", "-", "0">> \/ input = <<"O", "-", "O">>
    THEN Parsed(king_side(expected_color), w)
    ELSE IF input = <<"0", "-", "0", "-", "0">> \/ input = <<"O", "-", "O", "-", "O">>
    THEN Parsed(queen_side(expected_color), w)
    ELSE IF Contains(input, " ")
    THEN ParseRaise("InvalidMoveError", w)
    ELSE IF Contains(input, "-")
    THEN parse_square_move(w, input)
    ELSE IF Contains(input, "x")
    THEN parse_capturing_move(w, input, expected_color)
    ELSE LET text == IF Len(input) = 2 THEN <<"P">> \o input ELSE input
         IN  IF text # <<>> /\ text[1] \in DOMAIN PIECE_TYPES
             THEN parse_piece_move(w, text, expected_color, capture)
             ELSE IF Len(text) = 4
             THEN parse_move(w, Take(text, 2) \o <<"-">> \o Drop(text, 2), expected_color, FALSE)
             ELSE ParseRaise("InvalidMoveError", w)

\* ------------------------------------------------------------------------
\* The game (ascii_chess.py, Game): one board, the half-move counter, and
\* the moves entered at the prompt.
\* ------------------------------------------------------------------------
VARIABLES
    squares,        \* Board._squares: square -> piece, NoPiece for no entry
    white_king,     \* Board._white_king
    black_king,     \* Board._black_king
    has_moved,      \* Piece._has_moved of every piece object
    en_passant,     \* Pawn._en_passant of every pawn object
    half_move,      \* Game._half_move
    repertoire,     \* the moves the two players of this game choose from
    last_parse,     \* the latest text handed to parse_move and what it returned
    last_attempt,   \* the latest call of update_board and how it ended
    last_move,      \* the latest successful move, with what it found and removed
    double_step,    \* the pawn that advanced two ranks in the latest successful move
    ever_moved,     \* the pieces some successful move has relocated
    running,        \* Game.loop has not ended
    pending,        \* the tokens of the file being loaded that are still to be handled
    probe,          \* a call of a function of common.py and what it returned
    memory          \* the dictionary objects of a board and of its snapshot

vars ==
    <<squares, white_king, black_king, has_moved, en_passant, half_move,
      repertoire, last_parse, last_attempt, last_move, double_step, ever_moved,
      running, pending, probe, memory>>

\* The number of half-moves played in a game.
MaxPly == 11

\* The board of the game as a board value.
Board ==
    [squares |-> squares, white_king |-> white_king, black_king |-> black_king,
     has_moved |-> has_moved, en_passant |-> en_passant]

expected_color == IF half_move % 2 = 1 THEN WHITE ELSE BLACK

on_board(w) == {w.squares[s] : s \in Square} \ {NoPiece}

\* The pieces that stand on another square of w2 than of w1.
relocated(w1, w2) ==
    {w1.squares[s] : s \in {t \in Square : w1.squares[t] # w2.squares[t]}}
        \cap on_board(w2)

\* The moves entered in the games explored, in the engine's notation: three
\* repertoires, one around the h- and d-pawns and en passant, one around
\* king-side castling, one around queen-side castling.
PawnGame ==
    { Move(<<8, 2>>, <<8, 4>>, FALSE),    \* h2-h4
      Move(<<8, 4>>, <<8, 5>>, FALSE),    \* h4-h5
      Move(<<8, 5>>, <<8, 6>>, FALSE),    \* h5-h6
      Move(<<8, 6>>, <<7, 7>>, TRUE),     \* h6xg7
      Move(<<5, 2>>, <<5, 4>>, FALSE),    \* e2-e4
      Move(<<5, 4>>, <<6, 5>>, TRUE),     \* e4xf5
      Move(<<4, 7>>, <<4, 5>>, FALSE),    \* d7-d5
      Move(<<4, 5>>, <<4, 4>>, FALSE),    \* d5-d4
      Move(<<6, 7>>, <<6, 5>>, FALSE),    \* f7-f5
      Move(<<7, 7>>, <<8, 6>>, TRUE),     \* g7xh6
      Move(<<7, 8>>, <<6, 6>>, FALSE),    \* g8-f6
      Move(<<6, 6>>, <<5, 4>>, TRUE),     \* f6xe4
      Move(<<4, 4>>, <<5, 3>>, TRUE) }    \* d4xe3

KingSideGame ==
    { Move(<<6, 2>>, <<6, 4>>, FALSE),    \* f2-f4
      Move(<<7, 1>>, <<6, 3>>, FALSE),    \* g1-f3
      Move(<<5, 2>>, <<5, 4>>, FALSE),    \* e2-e4
      Move(<<6, 1>>, <<5, 2>>, FALSE),    \* f1-e2
      Move(<<5, 1>>, <<8, 1>>, FALSE),    \* e1-h1
      Move(<<5, 1>>, <<6, 2>>, FALSE),    \* e1-f2
      Move(<<5, 7>>, <<5, 6>>, FALSE),    \* e7-e6
      Move(<<6, 8>>, <<3, 5>>, FALSE),    \* f8-c5
      Move(<<7, 8>>, <<6, 6>>, FALSE),    \* g8-f6
      Move(<<3, 5>>, <<7, 1>>, TRUE) }    \* c5xg1

QueenSideGame ==
    { Move(<<2, 1>>, <<1, 3>>, FALSE),    \* b1-a3
      Move(<<4, 2>>, <<4, 4>>, FALSE),    \* d2-d4
      Move(<<3, 1>>, <<6, 4>>, FALSE),    \* c1-f4
      Move(<<4, 1>>, <<4, 2>>, FALSE),    \* d1-d2
      Move(<<1, 1>>, <<2, 1>>, FALSE),    \* a1-b1
      Move(<<2, 1>>, <<1, 1>>, FALSE),    \* b1-a1
      Move(<<2, 8>>, <<1, 6>>, FALSE),    \* b8-a6
      Move(<<4, 7>>, <<4, 5>>, FALSE),    \* d7-d5
      Move(<<3, 8>>, <<6, 5>>, FALSE),    \* c8-f5
      Move(<<4, 8>>, <<4, 6>>, FALSE) }   \* d8-d6

\* The texts entered in the games explored: a few for each repertoire of
\* moves, and two games entered as text only, one around the notation
\* forms, one around two pawns next to a double step.
PawnTexts ==
    { <<"d", "x", "e", "3">>,
      <<"e", "4", "x", "f", "5">>,
      <<"e", "x", "f", "5">> }

KingSideTexts ==
    { <<"O", "-", "O">>,
      <<"K", "h", "1">>,
      <<"K", "f", "2">>,
      <<"B", "c", "5">> }

QueenSideTexts ==
    { <<"0", "-", "0", "-", "0">>,
      <<"R", "b", "1">>,
      <<"Q", "d", "6">>,
      <<"d", "2", "d", "4">> }

NotationGame ==
    { <<"e", "4">>,
      <<"d", "5">>,
      <<"e", "5">>,
      <<"e", "x", "d", "5">>,
      <<"e", "4", "x", "d", "5">>,
      <<"d", "3">>,
      <<"N", "f", "3">>,
      <<"N", "d", "2">>,
      <<"Q", "x", "d", "5">>,
      <<"N", "c", "6">>,
      <<"e", " ", "4">>,
      <<"N", "x", "e", "9">> }

StaleTargetGame ==
    { <<"d", "2", "-", "d", "4">>,
      <<"d", "4", "-", "d", "5">>,
      <<"f", "2", "-", "f", "4">>,
      <<"f", "4", "-", "f", "5">>,
      <<"b", "8", "-", "c", "6">>,
      <<"c", "6", "-", "b", "4">>,
      <<"N", "x", "a", "2">>,
      <<"N", "x", "c", "1">>,
      <<"e", "7", "-", "e", "5">>,
      <<"d", "x", "e", "6">>,
      <<"f", "x", "e", "6">> }

\* A black bishop on a6 looks at f1 while White castles king-side.
TransitGame ==
    { Move(<<7, 2>>, <<7, 3>>, FALSE),    \* g2-g3
      Move(<<6, 1>>, <<7, 2>>, FALSE),    \* f1-g2
      Move(<<7, 1>>, <<6, 3>>, FALSE),    \* g1-f3
      Move(<<5, 2>>, <<5, 4>>, FALSE),    \* e2-e4
      Move(<<2, 7>>, <<2, 6>>, FALSE),    \* b7-b6
      Move(<<3, 8>>, <<1, 6>>, FALSE),    \* c8-a6
      Move(<<2, 8>>, <<3, 6>>, FALSE),    \* b8-c6
      Move(<<3, 6>>, <<2, 8>>, FALSE) }   \* c6-b8

\* The white king and the king's rook leave their squares and come back.
CastlingRightsGame ==
    { Move(<<7, 1>>, <<6, 3>>, FALSE),    \* g1-f3
      Move(<<5, 2>>, <<5, 4>>, FALSE),    \* e2-e4
      Move(<<6, 1>>, <<3, 4>>, FALSE),    \* f1-c4
      Move(<<8, 1>>, <<7, 1>>, FALSE),    \* h1-g1
      Move(<<7, 1>>, <<8, 1>>, FALSE),    \* g1-h1
      Move(<<5, 1>>, <<5, 2>>, FALSE),    \* e1-e2
      Move(<<5, 2>>, <<5, 1>>, FALSE),    \* e2-e1
      Move(<<2, 8>>, <<3, 6>>, FALSE),    \* b8-c6
      Move(<<3, 6>>, <<2, 8>>, FALSE) }   \* c6-b8

\* A black pawn that may capture en passant captures something else first.
SidewaysGame ==
    { Move(<<2, 1>>, <<3, 3>>, FALSE),    \* b1-c3
      Move(<<8, 2>>, <<8, 4>>, FALSE),    \* h2-h4
      Move(<<8, 4>>, <<8, 5>>, FALSE),    \* h4-h5
      Move(<<5, 2>>, <<5, 4>>, FALSE),    \* e2-e4
      Move(<<8, 5>>, <<7, 6>>, TRUE),     \* h5xg6
      Move(<<4, 7>>, <<4, 5>>, FALSE),    \* d7-d5
      Move(<<4, 5>>, <<4, 4>>, FALSE),    \* d5-d4
      Move(<<7, 7>>, <<7, 6>>, FALSE),    \* g7-g6
      Move(<<4, 4>>, <<3, 3>>, TRUE),     \* d4xc3
      Move(<<3, 3>>, <<5, 3>>, TRUE) }    \* c3xe3

Repertoires ==
    <<PawnGame, KingSideGame, QueenSideGame, {}, {}, TransitGame, CastlingRightsGame,
      SidewaysGame>>

Notations ==
    <<PawnTexts, KingSideTexts, QueenSideTexts, NotationGame, StaleTargetGame, {}, {}, {}>>

\* The reserved words of the prompt.
Reserved == {<<"q">>, <<"b">>, <<"l", "o", "a", "d">>}

\* The files loaded in the games explored, each the sequence of the move
\* tokens of its lines.
NotationFiles ==
    { << <<"e", "4">>, <<"d", "5">> >>,
      << <<"q">>, <<"e", "4">>, <<"l", "o", "a", "d">>, <<"b">>, <<"e", "5">> >>,
      << <<"e", "5">>, <<"e", "4">> >> }

LoadFiles == <<{}, {}, {}, NotationFiles, {}, {}, {}, {}>>

\* What Game.loop catches besides StopError; any other exception ends the
\* program.
Caught == {"ok", "ValueError", "InvalidMoveError"}

\* "O-O" and "O-O-O" for the side to move.
Castlings(color) == {king_side(color), queen_side(color)}

NoDoubleStep == [square |-> None, piece |-> NoPiece]

NoParse == [input |-> <<>>, color |-> "none", result |-> "none", move |-> NoParsedMove]

NoMove ==
    [op |-> "none", from |-> None, to |-> None, capture |-> FALSE, color |-> "none",
     piece |-> NoPiece, to_before |-> NoPiece, target_before |-> None,
     removed |-> {}, after_double |-> NoDoubleStep, transit_covered |-> FALSE]

\* A call of a function of common.py: its name, its arguments, and what it
\* returned once it is done.
Call(fn, start, to, file, rank, text) ==
    [fn |-> fn, start |-> start, to |-> to, file |-> file, rank |-> rank, text |-> text,
     done |-> FALSE, squares |-> <<>>, square |-> None, out |-> <<>>]

NoProbe == Call("none", None, None, 0, 0, <<>>)

\* The objects behind a board and a snapshot of it.  dicts holds the
\* dictionary objects created so far, board is the one Board._squares refers
\* to, state is the tuple save_state returned (its first item a reference,
\* 0 before any snapshot is taken), at_save is the position at the time of the
\* snapshot, op the latest operation and steps their number.
NoState == [squares |-> 0, white_king |-> None, black_king |-> None]

NewMemory ==
    [dicts |-> <<initial_position.squares>>, board |-> 1, state |-> NoState,
     at_save |-> save_state(initial_position), op |-> "none", steps |-> 0]

\* dict.copy(): a new dictionary object with the same entries.
dict_copy(mem, d) == [mem EXCEPT !.dicts = Append(mem.dicts, mem.dicts[d])]

\* Mutant: the snapshot keeps a reference to the board's own dictionary.
Board_save_state_shared(mem, w) ==
    [mem EXCEPT !.state = [squares |-> mem.board, white_king |-> w.white_king,
                           black_king |-> w.black_king]]

\* Board.save_state on the objects: (self._squares.copy(), kings).
Board_save_state(mem, w) ==
    LET copied == dict_copy(mem, mem.board)
    IN  [copied EXCEPT !.state = [squares |-> Len(copied.dicts),
                                  white_king |-> w.white_king,
                                  black_king |-> w.black_king]]

\* Board.restore_state on the objects: self._squares = state[0].copy().
Board_restore_state(mem, state) ==
    LET copied == dict_copy(mem, state.squares)
    IN  [copied EXCEPT !.board = Len(copied.dicts)]

\* Board.add_piece and Board.remove_piece on the objects: the dictionary the
\* board refers to is changed in place.
Board_add_piece(mem, p, s) == [mem EXCEPT !.dicts[mem.board][s] = p]

Board_remove_piece(mem, s) == [mem EXCEPT !.dicts[mem.board][s] = NoPiece]

Init ==
    /\ squares = initial_position.squares
    /\ white_king = initial_position.white_king
    /\ black_king = initial_position.black_king
    /\ has_moved = initial_position.has_moved
    /\ en_passant = initial_position.en_passant
    /\ half_move = 1
    /\ repertoire \in DOMAIN Repertoires
    /\ last_parse = NoParse
    /\ last_attempt = [op |-> "none", from |-> None, to |-> None, color |-> "none",
                       result |-> "none", reason |-> "none"]
    /\ last_move = NoMove
    /\ double_step = NoDoubleStep
    /\ ever_moved = {}
    /\ running = TRUE
    /\ pending = <<>>
    /\ probe = NoProbe
    /\ memory = NewMemory

\* What a successful move m of color, taking the board from w to w2, leaves
\* in the observation variables.
Observe(w, m, color, w2) ==
    LET piece == w.squares[m.from]
        is_double == ~m.castling /\ ~m.capture /\ piece.kind = PAWN
                        /\ Abs(Rank(m.to) - Rank(m.from)) = 2
    IN  /\ last_move' =
              [op |-> IF m.castling THEN "castling" ELSE "move",
               from |-> m.from, to |-> m.to, capture |-> m.capture, color |-> color,
               piece |-> piece, to_before |-> w.squares[m.to],
               target_before |-> IF piece.kind = PAWN THEN w.en_passant[piece] ELSE None,
               removed |-> on_board(w) \ on_board(w2),
               after_double |-> double_step,
               transit_covered |->
                   m.castling /\ covered_on(w, transit_square(m),
                                            IF color = WHITE THEN BLACK ELSE WHITE)]
        /\ double_step' =
              IF is_double THEN [square |-> m.to, piece |-> piece] ELSE NoDoubleStep
        /\ ever_moved' = ever_moved \cup relocated(w, w2)

\* update_board of the move m for the side to move, as the else-branch of
\* Game.handle_input calls it; the counter advances unless update_board
\* raises.
ApplyMove(m) ==
    /\ half_move <= MaxPly
    /\ running /\ pending = <<>>
    /\ \E r \in {update_board(Board, m, expected_color)} :
          /\ squares' = r.w.squares
          /\ white_king' = r.w.white_king
          /\ black_king' = r.w.black_king
          /\ has_moved' = r.w.has_moved
          /\ en_passant' = r.w.en_passant
          /\ last_attempt' =
                [op |-> IF m.castling THEN "castling" ELSE "move",
                 from |-> m.from,
                 to |-> IF m.castling THEN m.to ELSE None,
                 color |-> expected_color,
                 result |-> r.result, reason |-> r.reason]
          /\ IF r.result = "ok"
             THEN /\ half_move' = half_move + 1
                  /\ Observe(Board, m, expected_color, r.w)
             ELSE UNCHANGED <<half_move, last_move, double_step, ever_moved>>
          /\ running' = (r.result \in Caught)
    /\ last_parse' = NoParse
    /\ UNCHANGED <<repertoire, pending, probe, memory>>

\* The else-branch of Game.handle_input for the text input: parse_move for
\* the side to move, then update_board of the move it returns; the counter
\* advances unless one of the two raises.  An exception leaves the loop over
\* the lines of a file, so rest is what remains to be handled after success.
HandleInput(input, rest) ==
    /\ half_move <= MaxPly
    /\ running
    /\ \E p \in {parse_move(Board, input, expected_color, FALSE)} :
          /\ last_parse' = [input |-> input, color |-> expected_color,
                            result |-> p.result, move |-> p.move]
          /\ IF p.result # "ok"
             THEN /\ squares' = p.w.squares
                  /\ white_king' = p.w.white_king
                  /\ black_king' = p.w.black_king
                  /\ has_moved' = p.w.has_moved
                  /\ en_passant' = p.w.en_passant
                  /\ last_attempt' =
                        [op |-> "parse", from |-> None, to |-> None,
                         color |-> expected_color,
                         result |-> p.result, reason |-> "parse"]
                  /\ running' = (p.result \in Caught)
                  /\ pending' = <<>>
                  /\ UNCHANGED <<half_move, last_move, double_step, ever_moved>>
             ELSE \E r \in {update_board(p.w, p.move, expected_color)} :
                  /\ squares' = r.w.squares
                  /\ white_king' = r.w.white_king
                  /\ black_king' = r.w.black_king
                  /\ has_moved' = r.w.has_moved
                  /\ en_passant' = r.w.en_passant
                  /\ last_attempt' =
                        [op |-> IF p.move.castling THEN "castling" ELSE "move",
                         from |-> p.move.from,
                         to |-> IF p.move.castling THEN p.move.to ELSE None,
                         color |-> expected_color,
                         result |-> r.result, reason |-> r.reason]
                  /\ running' = (r.result \in Caught)
                  /\ IF r.result = "ok"
                     THEN /\ half_move' = half_move + 1
                          /\ pending' = rest
                          /\ Observe(p.w, p.move, expected_color, r.w)
                     ELSE /\ pending' = <<>>
                          /\ UNCHANGED <<half_move, last_move, double_step, ever_moved>>
    /\ UNCHANGED <<repertoire, probe, memory>>

\* A command of the prompt that is not a move: what it leaves in the record
\* of the latest attempt.
Command(op, result) ==
    [op |-> op, from |-> None, to |-> None, color |-> expected_color,
     result |-> result, reason |-> "command"]

\* 'q' at the prompt: StopError ends the loop.
Quit ==
    /\ running /\ pending = <<>>
    /\ last_attempt' = Command("q", "StopError")
    /\ last_parse' = NoParse
    /\ running' = FALSE
    /\ UNCHANGED <<squares, white_king, black_king, has_moved, en_passant, half_move,
                   repertoire, last_move, double_step, ever_moved, pending, probe,
                   memory>>

\* 'b' at the prompt: the board is printed.
ShowBoard ==
    /\ running /\ pending = <<>>
    /\ last_attempt' = Command("b", "printed")
    /\ last_parse' = NoParse
    /\ UNCHANGED <<squares, white_king, black_king, has_moved, en_passant, half_move,
                   repertoire, last_move, double_step, ever_moved, running, pending,
                   probe, memory>>

\* 'load' at the prompt: an empty file name returns at once, otherwise the
\* tokens of the file are handled one by one.
Load ==
    /\ running /\ pending = <<>>
    /\ half_move <= MaxPly
    /\ \E file \in LoadFiles[repertoire] \cup {<<>>} : pending' = file
    /\ last_attempt' = Command("load", "reading")
    /\ last_parse' = NoParse
    /\ UNCHANGED <<squares, white_king, black_king, has_moved, en_passant, half_move,
                   repertoire, last_move, double_step, ever_moved, running, probe,
                   memory>>

\* handle_input(token, False, False) for the next token of the file: the
\* reserved words do nothing, any other token is a move.
LoadToken ==
    /\ running /\ pending # <<>>
    /\ IF Head(pending) \in Reserved
       THEN /\ pending' = Tail(pending)
            /\ last_attempt' = Command("token", "ignored")
            /\ last_parse' = NoParse
            /\ UNCHANGED <<squares, white_king, black_king, has_moved, en_passant,
                           half_move, repertoire, last_move, double_step, ever_moved,
                           running, probe, memory>>
       ELSE HandleInput(Head(pending), Tail(pending))

MoveUpdateBoard == \E m \in Repertoires[repertoire] : ApplyMove(m)

CastlingUpdateBoard == \E m \in Castlings(expected_color) : ApplyMove(m)

ParseAndUpdateBoard ==
    /\ pending = <<>>
    /\ \E input \in Notations[repertoire] : HandleInput(input, <<>>)

Next ==
    \/ MoveUpdateBoard
    \/ CastlingUpdateBoard
    \/ ParseAndUpdateBoard
    \/ Quit
    \/ ShowBoard
    \/ Load
    \/ LoadToken

Spec == Init /\ [][Next]_vars

\* ------------------------------------------------------------------------
\* The functions of common.py on their own: one call, drawn from the
\* arguments below, and then the call that takes its result back.
\* ------------------------------------------------------------------------
\* The texts handed to Square(...): a file character and a rank text.
FileTexts == {"a", "d", "e", "h", "i", "E", "1"}

RankTexts ==
    {<<>>, <<"0">>, <<"1">>, <<"4">>, <<"8">>, <<"9">>, <<"x">>,
     <<"0", "4">>, <<" ", "4">>, <<"1", "0">>}

SquareTexts == {<<>>} \cup {<<f>> \o r : f \in FileTexts, r \in RankTexts}

\* The integer file indices and the ranks handed to Square.fromFileAndRank.
FileIndices == -9..10
RankNumbers == 0..9

\* The pairs of squares each generator is called with.
HorizontalPairs == {<<s, e>> \in Square \X Square : s # e /\ Rank(s) = Rank(e)}

VerticalPairs == {<<s, e>> \in Square \X Square : s # e /\ File(s) = File(e)}

DiagonalPairs ==
    {<<s, e>> \in Square \X Square :
        s # e /\ Abs(File(s) - File(e)) = Abs(Rank(s) - Rank(e))}

ProbeCalls ==
    {Call("horizontal_move_generator", c[1], c[2], 0, 0, <<>>) : c \in HorizontalPairs}
        \cup {Call("vertical_move_generator", c[1], c[2], 0, 0, <<>>) : c \in VerticalPairs}
        \cup {Call("diagonal_move_generator", c[1], c[2], 0, 0, <<>>) : c \in DiagonalPairs}
        \cup {Call("Square", None, None, 0, 0, text) : text \in SquareTexts}
        \cup {Call("fromFileAndRank", None, None, f, r, <<>>) :
                 f \in FileIndices, r \in RankNumbers}
        \cup {Call("str", s, None, 0, 0, <<>>) : s \in Square}

game_vars ==
    <<squares, white_king, black_king, has_moved, en_passant, half_move,
      repertoire, last_parse, last_attempt, last_move, double_step, ever_moved,
      running, pending, memory>>

ProbeInit ==
    /\ squares = initial_position.squares
    /\ white_king = initial_position.white_king
    /\ black_king = initial_position.black_king
    /\ has_moved = initial_position.has_moved
    /\ en_passant = initial_position.en_passant
    /\ half_move = 1
    /\ repertoire = 1
    /\ last_parse = NoParse
    /\ last_attempt = [op |-> "none", from |-> None, to |-> None, color |-> "none",
                       result |-> "none", reason |-> "none"]
    /\ last_move = NoMove
    /\ double_step = NoDoubleStep
    /\ ever_moved = {}
    /\ running = TRUE
    /\ pending = <<>>
    /\ probe \in ProbeCalls
    /\ memory = NewMemory

CallHorizontal ==
    /\ probe.fn = "horizontal_move_generator" /\ ~probe.done
    /\ probe' = [probe EXCEPT !.done = TRUE,
                              !.squares = horizontal_move_generator(probe.start, probe.to)]
    /\ UNCHANGED game_vars

CallVertical ==
    /\ probe.fn = "vertical_move_generator" /\ ~probe.done
    /\ probe' = [probe EXCEPT !.done = TRUE,
                              !.squares = vertical_move_generator(probe.start, probe.to)]
    /\ UNCHANGED game_vars

CallDiagonal ==
    /\ probe.fn = "diagonal_move_generator" /\ ~probe.done
    /\ probe' = [probe EXCEPT !.done = TRUE,
                              !.squares = diagonal_move_generator(probe.start, probe.to)]
    /\ UNCHANGED game_vars

\* Square(text)
CallSquare ==
    /\ probe.fn = "Square" /\ ~probe.done
    /\ probe' = [probe EXCEPT !.done = TRUE, !.square = Square_init(probe.text)]
    /\ UNCHANGED game_vars

\* Square.fromFileAndRank(file, rank) with an integer file
CallFromFileAndRank ==
    /\ probe.fn = "fromFileAndRank" /\ ~probe.done
    /\ probe' = [probe EXCEPT !.done = TRUE,
                              !.square = fromFileAndRank(probe.file, probe.rank)]
    /\ UNCHANGED game_vars

\* str(square)
CallStr ==
    /\ probe.fn = "str" /\ ~probe.done
    /\ probe' = [probe EXCEPT !.done = TRUE, !.out = Square_str(probe.start)]
    /\ UNCHANGED game_vars

\* Square(str(square)): the text just formatted is parsed.
ParseFormatted ==
    /\ probe.fn = "str" /\ probe.done /\ probe.square = None
    /\ probe' = [probe EXCEPT !.square = Square_init(probe.out)]
    /\ UNCHANGED game_vars

\* str(Square(text)): the square just constructed is formatted.
FormatParsed ==
    /\ probe.fn \in {"Square", "fromFileAndRank"} /\ probe.done
    /\ probe.square \in Square /\ probe.out = <<>>
    /\ probe' = [probe EXCEPT !.out = Square_str(probe.square)]
    /\ UNCHANGED game_vars

ProbeNext ==
    \/ CallHorizontal
    \/ CallVertical
    \/ CallDiagonal
    \/ CallSquare
    \/ CallFromFileAndRank
    \/ CallStr
    \/ ParseFormatted
    \/ FormatParsed

ProbeSpec == ProbeInit /\ [][ProbeNext]_vars

\* ------------------------------------------------------------------------
\* The snapshot of a board (board.py): save_state once, then add_piece,
\* remove_piece, changes of the king-location fields and restore_state in
\* any order.
\* ------------------------------------------------------------------------
\* The number of operations on the board.
MaxOperations == 4

\* The pieces and squares the operations are called with.
SnapshotPieces == {Piece(PAWN, WHITE, 5), Piece(KING, BLACK, 5)}

SnapshotSquares == {<<5, 2>>, <<5, 4>>, <<5, 8>>}

rest_vars ==
    <<has_moved, en_passant, half_move, repertoire, last_parse, last_attempt,
      last_move, double_step, ever_moved, running, pending, probe>>

\* The board variables follow the objects.
BoardFollows(w) ==
    /\ squares' = memory'.dicts[memory'.board]
    /\ white_king' = w.white_king
    /\ black_king' = w.black_king
    /\ UNCHANGED rest_vars

Stepped(mem, op) == [mem EXCEPT !.op = op, !.steps = mem.steps + 1]

SaveState ==
    /\ memory.steps < MaxOperations
    /\ memory.state.squares = 0
    /\ \E mem \in {Board_save_state(memory, Board)} :
          memory' = [Stepped(mem, "save_state") EXCEPT !.at_save = save_state(Board)]
    /\ BoardFollows(Board)

AddPiece ==
    /\ memory.steps < MaxOperations
    /\ \E p \in SnapshotPieces, s \in SnapshotSquares :
          memory' = Stepped(Board_add_piece(memory, p, s), "add_piece")
    /\ BoardFollows(Board)

\* del self._squares[s] raises KeyError on an empty square.
RemovePiece ==
    /\ memory.steps < MaxOperations
    /\ \E s \in SnapshotSquares :
          /\ ~is_empty(Board, s)
          /\ memory' = Stepped(Board_remove_piece(memory, s), "remove_piece")
    /\ BoardFollows(Board)

\* A king-location field is assigned, as update_king_position does.
SetKingField ==
    /\ memory.steps < MaxOperations
    /\ memory' = Stepped(memory, "king")
    /\ \E color \in {WHITE, BLACK}, s \in SnapshotSquares :
          BoardFollows(update_king_position(Board, Move(s, s, FALSE),
                                            Piece(KING, color, 5)))

RestoreState ==
    /\ memory.steps < MaxOperations
    /\ memory.state.squares # 0
    /\ memory' = Stepped(Board_restore_state(memory, memory.state), "restore_state")
    /\ BoardFollows(memory.state)

SnapshotInit ==
    /\ squares = initial_position.squares
    /\ white_king = initial_position.white_king
    /\ black_king = initial_position.black_king
    /\ has_moved = initial_position.has_moved
    /\ en_passant = initial_position.en_passant
    /\ half_move = 1
    /\ repertoire = 1
    /\ last_parse = NoParse
    /\ last_attempt = [op |-> "none", from |-> None, to |-> None, color |-> "none",
                       result |-> "none", reason |-> "none"]
    /\ last_move = NoMove
    /\ double_step = NoDoubleStep
    /\ ever_moved = {}
    /\ running = TRUE
    /\ pending = <<>>
    /\ probe = NoProbe
    /\ memory = NewMemory

SnapshotNext ==
    \/ SaveState
    \/ AddPiece
    \/ RemovePiece
    \/ SetKingField
    \/ RestoreState

SnapshotSpec == SnapshotInit /\ [][SnapshotNext]_vars

\* ------------------------------------------------------------------------
\* Properties.
\* ------------------------------------------------------------------------
Opposite(color) == IF color = WHITE THEN BLACK ELSE WHITE

King(color) == Piece(KING, color, 5)

\* The squares on which the king of color stands.
KingSquares(color) == {s \in Square : squares[s] = King(color)}

\* Some piece of by_color covers the square s in the current position.
Covered(s, by_color) ==
    \E t \in Square :
        /\ squares[t] # NoPiece
        /\ squares[t].color = by_color
        /\ is_covering_square(Board, squares[t], t, s)

Succeeded == last_attempt.result = "ok"

\* C1: right after every successful update_board for colour C (simple move,
\* capture, en-passant capture or castling) no opposing piece covers the
\* square on which C's king stands.
C1_NoSelfCheck ==
    Succeeded =>
        \A s \in KingSquares(last_attempt.color) :
            ~Covered(s, Opposite(last_attempt.color))

\* C2: whenever update_board (Move or Castling) raises, the square-to-piece
\* mapping and both king-location fields are what they were before the call.
C2_AllOrNothing ==
    [][last_attempt'.result # "ok" =>
         /\ squares' = squares
         /\ white_king' = white_king
         /\ black_king' = black_king]_vars

\* A move was applied and rolled back by the self-check guard.
C2_Witness ==
    /\ last_attempt.op = "move"
    /\ last_attempt.result = "InvalidMoveError"
    /\ last_attempt.reason = "king in check"

\* C3: the white-king field and the black-king field each equal the square
\* that holds that colour's king.
C3_KingIndex ==
    /\ \A s \in KingSquares(WHITE) : white_king = s
    /\ \A s \in KingSquares(BLACK) : black_king = s

\* C4: an en-passant target set by a double step on ply N is cleared by the
\* start of ply N+2: a pawn on the board has a target only while the double
\* step is the latest successful move.
C4_OnePlyLifetime ==
    \A s \in Square :
        (squares[s].kind = PAWN /\ en_passant[squares[s]] # None)
            => double_step.square # None

\* C5: an applied simple non-capturing move found its destination empty and
\* leaves the moved piece on it.
C5_SimpleMoveOntoEmpty ==
    (Succeeded /\ last_move.op = "move" /\ ~last_move.capture) =>
        /\ last_move.to_before = NoPiece
        /\ squares[last_move.to] = last_move.piece

\* C6: an applied capturing move removes exactly one piece, of the colour
\* opposite to the moving piece.
C6_CaptureRemovesOneOpponent ==
    (Succeeded /\ last_move.op = "move" /\ last_move.capture) =>
        /\ Cardinality(last_move.removed) = 1
        /\ \A p \in last_move.removed : p.color # last_move.color

\* The conditions of castling for color with the rook on the corner square:
\* king on its home square and never moved, a rook of the colour on the corner
\* and never moved, the squares between them empty, the king not in check.
CastlingLegal(color, corner) ==
    LET rank == IF color = WHITE THEN 1 ELSE 8
        home == <<5, rank>>
        between == IF File(corner) = 8 THEN {6, 7} ELSE {2, 3, 4}
    IN  /\ squares[home] = King(color)
        /\ King(color) \notin ever_moved
        /\ squares[corner].kind = ROOK
        /\ squares[corner].color = color
        /\ squares[corner] \notin ever_moved
        /\ \A f \in between : squares[<<f, rank>>] = NoPiece
        /\ ~Covered(home, Opposite(color))

C8_CastlingEffect ==
    [][(last_attempt'.op = "castling" /\ last_attempt'.result = "ok") =>
         LET color == last_attempt'.color
             rank == IF color = WHITE THEN 1 ELSE 8
             corner == last_attempt'.to
             king_file == IF File(corner) = 8 THEN 7 ELSE 3
             rook_file == IF File(corner) = 8 THEN 6 ELSE 4
             rook == squares[corner]
         IN  /\ squares[<<5, rank>>] = King(color)
             /\ rook.kind = ROOK
             /\ squares' = [squares EXCEPT ![<<5, rank>>] = NoPiece,
                                           ![corner] = NoPiece,
                                           ![<<king_file, rank>>] = King(color),
                                           ![<<rook_file, rank>>] = rook]
             /\ has_moved'[King(color)]
             /\ has_moved'[rook]]_vars

\* Queen-side castling was played.
C8_Witness ==
    /\ last_attempt.op = "castling"
    /\ Succeeded
    /\ File(last_attempt.to) = 1

\* The latest successful move is a pawn capturing onto its en-passant target
\* on the ply right after a double step.
EnPassantPlayed ==
    /\ Succeeded
    /\ last_move.op = "move"
    /\ last_move.capture
    /\ last_move.piece.kind = PAWN
    /\ last_move.target_before = last_move.to
    /\ last_move.after_double.square # None

\* C9: a pawn of colour C capturing onto its en-passant target on the ply
\* right after the opposing double step ends on the previously empty target
\* square, and the piece removed is the pawn that double-stepped, taken from
\* the square one rank behind the destination in C's direction.
C9_EnPassantEffect ==
    EnPassantPlayed =>
        LET to == last_move.to
            behind == <<File(to), IF last_move.color = WHITE
                                  THEN Rank(to) - 1 ELSE Rank(to) + 1>>
            taken == last_move.after_double
        IN  /\ last_move.to_before = NoPiece
            /\ squares[to] = last_move.piece
            /\ taken.square = behind
            /\ taken.piece.kind = PAWN
            /\ taken.piece.color = Opposite(last_move.color)
            /\ last_move.removed = {taken.piece}
            /\ squares[behind] = NoPiece

C9_Witness == EnPassantPlayed

\* The pawn on square s has an en-passant target.
HasTarget(s) == squares[s].kind = PAWN /\ en_passant[squares[s]] # None

\* C10: after a successful non-capturing move a pawn on the board has an
\* en-passant target only if the move was a pawn advancing two ranks, the
\* pawn is of the opposite colour, stands on the same rank and on an adjacent
\* file, and its target is the square the double-stepped pawn passed over.
C10_EnPassantTargets ==
    (Succeeded /\ ~last_move.capture) =>
        \A s \in Square :
            HasTarget(s) =>
                /\ last_move.op = "move"
                /\ last_move.piece.kind = PAWN
                /\ Abs(Rank(last_move.to) - Rank(last_move.from)) = 2
                /\ squares[s].color = Opposite(last_move.color)
                /\ Rank(s) = Rank(last_move.to)
                /\ Abs(File(s) - File(last_move.to)) = 1
                /\ en_passant[squares[s]] =
                      <<File(last_move.to),
                        (Rank(last_move.from) + Rank(last_move.to)) \div 2>>

\* A double step has just given a neighbouring pawn its target.
C10_Witness ==
    /\ Succeeded
    /\ ~last_move.capture
    /\ \E s \in Square : HasTarget(s)

\* ------------------------------------------------------------------------
\* The rules of movement, stated on the squares of the board.
\* ------------------------------------------------------------------------
Sign(x) == IF x > 0 THEN 1 ELSE IF x < 0 THEN -1 ELSE 0

Max(a, b) == IF a > b THEN a ELSE b

OnRankOrFile(a, b) == a # b /\ (File(a) = File(b) \/ Rank(a) = Rank(b))

OnDiagonal(a, b) == a # b /\ Abs(File(a) - File(b)) = Abs(Rank(a) - Rank(b))

\* The squares strictly between a and b, which lie on one line.
Between(a, b) ==
    LET dx == File(b) - File(a)
        dy == Rank(b) - Rank(a)
    IN  {<<File(a) + k * Sign(dx), Rank(a) + k * Sign(dy)>> :
            k \in 1..(Max(Abs(dx), Abs(dy)) - 1)}

OnLineOf(kind, a, b) ==
    CASE kind = ROOK -> OnRankOrFile(a, b)
      [] kind = BISHOP -> OnDiagonal(a, b)
      [] kind = QUEEN -> OnRankOrFile(a, b) \/ OnDiagonal(a, b)
      [] OTHER -> FALSE

\* The piece p standing on a covers b in the current position.
Covers(p, a, b) ==
    CASE p.kind = PAWN ->
            /\ Rank(b) - Rank(a) = (IF p.color = WHITE THEN 1 ELSE -1)
            /\ Abs(File(b) - File(a)) = 1
      [] p.kind = KNIGHT ->
            {Abs(File(b) - File(a)), Abs(Rank(b) - Rank(a))} = {1, 2}
      [] p.kind = KING ->
            a # b /\ Abs(File(b) - File(a)) <= 1 /\ Abs(Rank(b) - Rank(a)) <= 1
      [] OTHER ->
            OnLineOf(p.kind, a, b) /\ \A s \in Between(a, b) : squares[s] = NoPiece

\* A pawn of color may advance from a to b without capturing.
PawnAdvance(color, a, b) ==
    LET ahead == IF color = WHITE THEN 1 ELSE -1
        start == IF color = WHITE THEN 2 ELSE 7
    IN  /\ squares[b] = NoPiece
        /\ File(b) = File(a)
        /\ \/ Rank(b) = Rank(a) + ahead
           \/ /\ Rank(b) = Rank(a) + 2 * ahead
              /\ Rank(a) = start
              /\ squares[<<File(a), Rank(a) + ahead>>] = NoPiece

\* The piece on s can move to the empty square to by its rule of movement.
LegallyReaches(s, to) ==
    /\ squares[to] = NoPiece
    /\ IF squares[s].kind = PAWN
       THEN PawnAdvance(squares[s].color, s, to)
       ELSE Covers(squares[s], s, to)

\* The step taken is a call of update_board, described by last_attempt'.
\* C11: update_board fails and leaves the board as it was when the origin
\* square is empty or holds a piece that is not of the side to move; and a
\* successful update_board relocates pieces of the side to move only.
C11_OriginGuard ==
    [][last_attempt'.op \in {"move", "castling"} =>
         LET origin == squares[last_attempt'.from]
         IN  /\ (origin = NoPiece \/ origin.color # expected_color) =>
                    /\ last_attempt'.result # "ok"
                    /\ Board' = Board
             /\ last_attempt'.result = "ok" =>
                    \A p \in relocated(Board, Board') : p.color = expected_color]_vars

\* A move was refused because the piece on its origin square belongs to the
\* side that is not to move.
C11_Witness ==
    /\ last_attempt.op = "move"
    /\ last_attempt.result = "ValueError"
    /\ squares[last_attempt.from] # NoPiece
    /\ squares[last_attempt.from].color # last_attempt.color

\* A text "<square>x<square>".
ExplicitCapture(input) ==
    /\ Len(input) = 5
    /\ input[3] = "x"
    /\ Square_init(Take(input, 2)) # SquareError
    /\ Square_init(Drop(input, 3)) # SquareError

\* The piece on f, of the side to move, can capture the opposing piece on t:
\* update_board of the capturing move from f to t succeeds.
LegalCapture(f, t) ==
    /\ squares[f] # NoPiece
    /\ squares[f].color = expected_color
    /\ squares[t] # NoPiece
    /\ squares[t].color # expected_color
    /\ update_board(Board, Move(f, t, TRUE), expected_color).result = "ok"

\* C12: when the text "<square>x<square>" is entered and the piece on the
\* first square can legally capture the opposing piece on the second, parsing
\* and applying succeeds and the capturing piece stands on the second square.
C12_ExplicitCapture ==
    [][LET input == last_parse'.input
           f == Square_init(Take(input, 2))
           t == Square_init(Drop(input, 3))
       IN  (ExplicitCapture(input) /\ LegalCapture(f, t)) =>
               /\ last_parse'.result = "ok"
               /\ last_attempt'.result = "ok"
               /\ squares'[t] = squares[f]
               /\ squares'[f] = NoPiece]_vars

\* The target squares of the piece-letter texts examined in every position.
Targets ==
    {<<5, 4>>, <<5, 5>>, <<4, 5>>, <<4, 2>>, <<6, 3>>, <<8, 1>>, <<7, 1>>,
     <<6, 2>>, <<3, 5>>, <<2, 1>>, <<4, 6>>, <<3, 6>>, <<4, 3>>, <<3, 1>>}

\* The squares from which a piece of the type and color legally reaches to.
Reachers(piece_type, color, to) ==
    {s \in Square :
        /\ squares[s] # NoPiece
        /\ squares[s].kind = piece_type
        /\ squares[s].color = color
        /\ LegallyReaches(s, to)}

\* The text "<PieceLetter><target>", or "<target>" for the letter "".
PieceText(c, to) == (IF c = "" THEN <<>> ELSE <<c>>) \o Square_str(to)

\* C13: "<PieceLetter><target>" and "<target>" resolve to the move from S
\* exactly when S holds the only piece of the type and of the side to move
\* that legally reaches the target; with no such piece or several the
\* parser fails with InvalidMoveError.
C13_PieceLetter ==
    \A c \in DOMAIN PIECE_TYPES \cup {""} : \A to \in Targets :
        LET r == parse_move(Board, PieceText(c, to), expected_color, FALSE)
            R == Reachers(IF c = "" THEN PAWN ELSE PIECE_TYPES[c], expected_color, to)
        IN  /\ \A s \in Square :
                  (r.result = "ok" /\ r.move = Move(s, to, FALSE)) <=> (R = {s})
            /\ Cardinality(R) # 1 => r.result = "InvalidMoveError"

\* C14: every move the parser returns for a text containing 'x' is a capture
\* on the current board (Move.is_capture holds for it).
C14_ParsedCaptureCaptures ==
    \A input \in Notations[repertoire] :
        Contains(input, "x") =>
            LET r == parse_move(Board, input, expected_color, FALSE)
            IN  r.result = "ok" => is_capture(Board, r.move)

\* C15: parse_move leaves the board as it is: when it fails the square
\* mapping, the king fields, the has-moved flags and the en-passant targets
\* are unchanged, and when it returns a move the board after the text is
\* handled is the board update_board makes of the board before parsing.
C15_ParsingIsPure ==
    [][last_parse'.result # "none" =>
         IF last_parse'.result # "ok"
         THEN Board' = Board
         ELSE Board' = update_board(Board, last_parse'.move, expected_color).w]_vars

\* A pawn capture was parsed while some pawn held an en-passant target, and
\* the move returned was applied.
C15_Witness ==
    /\ last_parse.result = "ok"
    /\ Contains(last_parse.input, "x")
    /\ last_parse.move.capture
    /\ last_move.target_before # None
    /\ Succeeded

\* The squares that hold the piece p.
SquaresOf(p) == {s \in Square : squares[s] = p}

Occupied == {s \in Square : squares[s] # NoPiece}

\* C16: every piece stands on at most one square of the board; a successful
\* simple move leaves the moved piece on its destination and its origin
\* empty; and no step of the game adds a piece to the board.
C16_PieceOwnership ==
    /\ [](\A p \in Pieces : Cardinality(SquaresOf(p)) <= 1)
    /\ [][/\ Cardinality(Occupied') <= Cardinality(Occupied)
          /\ (last_attempt'.result = "ok" /\ last_attempt'.op = "move") =>
                /\ squares'[last_move'.to] = squares[last_move'.from]
                /\ squares'[last_move'.from] = NoPiece]_vars

\* A capture has been applied: one piece fewer, the capturing piece on the
\* destination square only.
C16_Witness ==
    /\ Succeeded
    /\ last_move.op = "move"
    /\ last_move.capture
    /\ SquaresOf(last_move.piece) = {last_move.to}
    /\ Cardinality(Occupied) < 32

\* The squares that hold a king of color.
KingsOf(color) ==
    {s \in Square : squares[s].kind = KING /\ squares[s].color = color}

\* C17: the board holds at most one king of each colour.
C17_OneKing == \A color \in {WHITE, BLACK} : Cardinality(KingsOf(color)) <= 1

\* A king has just been moved, by a simple move or by castling.
C17_Witness ==
    /\ Succeeded
    /\ last_move.piece.kind = KING
    /\ Cardinality(KingsOf(last_move.color)) = 1

\* The position is the initial one or the outcome of a successful move; every
\* board of the game is the board of such a position, since a refused text or
\* move leaves the board as it was.
AfterMove == last_attempt.result \in {"ok", "none"}

Sliders == {ROOK, BISHOP, QUEEN}

\* C18: a rook, bishop or queen standing on a covers b exactly when b is
\* another square on a line the piece moves along and every square strictly
\* between the two is empty, whatever stands on b.
C18_SliderCoverage ==
    AfterMove =>
        \A a \in Occupied :
            squares[a].kind \in Sliders =>
                \A b \in Square :
                    LET line == /\ OnLineOf(squares[a].kind, a, b)
                                /\ \A s \in Between(a, b) : squares[s] = NoPiece
                    IN  /\ is_covering_square(Board, squares[a], a, b) = line
                        /\ b # a =>
                            /\ is_covering_square(remove_piece(Board, b), squares[a], a, b) = line
                            /\ is_covering_square(add_piece(Board, King(WHITE), b), squares[a], a, b) = line

\* A queen away from her home square covers a square three or more squares
\* off and is blocked on another of her lines.
C18_Witness ==
    /\ AfterMove
    /\ \E a \in Occupied :
          /\ squares[a].kind = QUEEN
          /\ a \notin {<<4, 1>>, <<4, 8>>}
          /\ \E b \in Square :
                /\ Cardinality(Between(a, b)) >= 2
                /\ is_covering_square(Board, squares[a], a, b)
          /\ \E b \in Square :
                /\ OnLineOf(QUEEN, a, b)
                /\ ~is_covering_square(Board, squares[a], a, b)

\* The square recorded as the square of the king of color.
KingField(color) == IF color = WHITE THEN white_king ELSE black_king

\* C19: is_king_in_check(color) is true exactly when some piece of the other
\* colour on the board covers, by its own rule, the square recorded as the
\* square of that colour's king.
C19_CheckDetection ==
    AfterMove =>
        \A color \in {WHITE, BLACK} :
            is_king_in_check(Board, color) <=>
                \E t \in Occupied :
                    /\ squares[t].color = Opposite(color)
                    /\ Covers(squares[t], t, KingField(color))

\* The move just made gives check to the side now to move.
C19_Witness ==
    /\ Succeeded
    /\ is_king_in_check(Board, expected_color)
    /\ squares[KingField(expected_color)] = King(expected_color)

\* C20: Pawn.is_valid_move(from, to) is true exactly when to is empty, on the
\* file of from, and one rank ahead, or two ranks ahead from the pawn's
\* starting rank over an empty square.
C20_PawnAdvance ==
    AfterMove =>
        \A a \in Occupied :
            squares[a].kind = PAWN =>
                \A b \in Square :
                    Pawn_is_valid_move(Board, squares[a], a, b)
                        <=> PawnAdvance(squares[a].color, a, b)

\* A pawn has advanced two ranks, another pawn on its starting rank has a
\* piece on the square in front of it and none two ranks ahead, and a third
\* pawn has left its starting rank.
C20_Witness ==
    /\ Succeeded
    /\ double_step.square # None
    /\ \E a \in Occupied :
          /\ squares[a].kind = PAWN
          /\ Rank(a) = (IF squares[a].color = WHITE THEN 2 ELSE 7)
          /\ squares[<<File(a), (IF squares[a].color = WHITE THEN 3 ELSE 6)>>] # NoPiece
          /\ squares[<<File(a), (IF squares[a].color = WHITE THEN 4 ELSE 5)>>] = NoPiece
    /\ \E a \in Occupied :
          /\ squares[a].kind = PAWN
          /\ Rank(a) \in 3..6

\* The number of king steps between two squares.
Distance(a, b) == Max(Abs(File(a) - File(b)), Abs(Rank(a) - Rank(b)))

\* The square s lies on the line the generator fn walks from start.
StaysOnLine(fn, start, s) ==
    CASE fn = "horizontal_move_generator" -> Rank(s) = Rank(start)
      [] fn = "vertical_move_generator" -> File(s) = File(start)
      [] fn = "diagonal_move_generator" ->
            Abs(File(s) - File(start)) = Abs(Rank(s) - Rank(start))
      [] OTHER -> FALSE

RayGenerators ==
    {"horizontal_move_generator", "vertical_move_generator", "diagonal_move_generator"}

\* C21: for two distinct squares that meet a generator's precondition the
\* generated sequence has as many squares as the distance from start to end,
\* never holds start, ends with end, stays on the line, and its i-th square
\* is i steps from start (and as many steps nearer to end).
C21_RayGenerators ==
    (probe.fn \in RayGenerators /\ probe.done) =>
        LET seq == probe.squares
            d == Distance(probe.start, probe.to)
        IN  /\ Len(seq) = d
            /\ seq[Len(seq)] = probe.to
            /\ \A i \in 1..Len(seq) :
                  /\ seq[i] \in Square
                  /\ seq[i] # probe.start
                  /\ StaysOnLine(probe.fn, probe.start, seq[i])
                  /\ Distance(probe.start, seq[i]) = i
                  /\ Distance(seq[i], probe.to) = d - i

\* The diagonal from h1 to a8 has been generated.
C21_Witness ==
    /\ probe.fn = "diagonal_move_generator"
    /\ probe.done
    /\ probe.start = <<8, 1>>
    /\ probe.to = <<1, 8>>
    /\ Len(probe.squares) = 7

\* The text names a file a..h and, after it, a rank 1..8.
ValidCoordinate(text) ==
    /\ text # <<>>
    /\ Contains(FILE_NAMES, Head(text))
    /\ int(strip(Tail(text))) \in RANKS

\* C22: constructing a square fails for every file outside a..h (index 1..8)
\* and every rank outside 1..8, through the text and through fromFileAndRank
\* with an integer file index.
C22_ConstructionValidity ==
    /\ (probe.fn = "Square" /\ probe.done /\ ~ValidCoordinate(probe.text))
          => probe.square = SquareError
    /\ (probe.fn = "fromFileAndRank" /\ probe.done
            /\ ~(probe.file \in FILES /\ probe.rank \in RANKS))
          => probe.square = SquareError

C23_WitnessParsed ==
    /\ probe.fn = "Square"
    /\ probe.done
    /\ probe.text = <<"e", "4">>
    /\ probe.square = <<5, 4>>
    /\ probe.out # <<>>

RunSquares ==
    IF last_attempt.op = "none"
    THEN Square
    ELSE {<<4, 2>>, <<4, 4>>, <<5, 4>>, <<5, 5>>, <<6, 3>>, <<3, 6>>, <<2, 1>>, <<8, 1>>}

\* C24: for valid square texts s and t, parse_move of the four-character run
\* s+t returns what parse_move of s+"-"+t returns, the non-capturing move
\* from s to t, on every board and for either side to move.
C24_RunEqualsDash ==
    AfterMove =>
        \A s \in RunSquares, e \in RunSquares, color \in {WHITE, BLACK} :
            LET run == parse_move(Board, Square_str(s) \o Square_str(e), color, FALSE)
                dash == parse_move(Board, Square_str(s) \o <<"-">> \o Square_str(e),
                                   color, FALSE)
            IN  /\ run = dash
                /\ run.result = "ok"
                /\ run.move = Move(s, e, FALSE)

\* The run "d2d4" was entered, parsed to the move from d2 to d4 and applied.
C24_Witness ==
    /\ last_parse.input = <<"d", "2", "d", "4">>
    /\ last_parse.result = "ok"
    /\ last_parse.move = Move(<<4, 2>>, <<4, 4>>, FALSE)
    /\ Succeeded
    /\ squares[<<4, 4>>] = Piece(PAWN, WHITE, 4)

\* The side the prompt asks for a move.
SideToMove == IF half_move % 2 = 1 THEN WHITE ELSE BLACK

\* The counter advances with every applied move, for the side whose turn it
\* was, and with nothing else.
CounterFollowsMoves ==
    /\ last_attempt'.result = "ok" =>
          /\ half_move' = half_move + 1
          /\ last_attempt'.color = SideToMove
    /\ last_attempt'.result # "ok" => half_move' = half_move

\* C25: the first move is parsed and applied for White and the side to move
\* alternates with each applied move; a move that fails to parse or to apply,
\* and the commands b and load themselves, leave the counter alone and the
\* loop asks the same side again (q leaves the counter alone and ends the loop).
C25_TurnOrder ==
    /\ [](half_move = 1 => SideToMove = WHITE)
    /\ [][/\ CounterFollowsMoves
          /\ (last_attempt'.result # "ok" /\ last_attempt'.op # "q") => running']_vars

\* The counter alone: it advances exactly with the applied moves.
C25_CounterOnly == [][CounterFollowsMoves]_vars

\* The pieces whose has-moved flag is set.
Moved == {p \in Pieces : has_moved[p]}

\* C26: a has-moved flag, once set, stays set through every later move and
\* every rollback, every piece a successful move has relocated has its flag
\* set, and a castling succeeds only with a king and a rook that no
\* successful move has relocated before, wherever they stand now.
C26_RightsNeverRegained ==
    /\ [](ever_moved \subseteq Moved)
    /\ [][Moved \subseteq {p \in Pieces : has_moved'[p]}]_vars
    /\ [][(last_attempt'.op = "castling" /\ last_attempt'.result = "ok") =>
             LET king == King(last_attempt'.color)
                 rook == squares[last_attempt'.to]
             IN  /\ king \notin ever_moved /\ ~has_moved[king]
                 /\ rook \notin ever_moved /\ ~has_moved[rook]]_vars

\* The white king went to e2 and came back to e1; with the rook on h1 and f1
\* and g1 empty, king-side castling was refused.
C26_Witness ==
    /\ last_attempt.op = "castling"
    /\ last_attempt.color = WHITE
    /\ File(last_attempt.to) = 8
    /\ last_attempt.result = "InvalidMoveError"
    /\ squares[<<5, 1>>] = King(WHITE)
    /\ has_moved[King(WHITE)]
    /\ squares[<<8, 1>>] = Piece(ROOK, WHITE, 8)
    /\ ~has_moved[Piece(ROOK, WHITE, 8)]
    /\ squares[<<6, 1>>] = NoPiece
    /\ squares[<<7, 1>>] = NoPiece
    /\ ~Covered(<<5, 1>>, BLACK)

\* The rook went from h1 to g1 and came back; with the king on e1 unmoved,
\* king-side castling was refused.
C26_WitnessRook ==
    /\ last_attempt.op = "castling"
    /\ last_attempt.color = WHITE
    /\ File(last_attempt.to) = 8
    /\ last_attempt.result = "InvalidMoveError"
    /\ squares[<<5, 1>>] = King(WHITE)
    /\ ~has_moved[King(WHITE)]
    /\ squares[<<8, 1>>] = Piece(ROOK, WHITE, 8)
    /\ has_moved[Piece(ROOK, WHITE, 8)]
    /\ squares[<<6, 1>>] = NoPiece
    /\ squares[<<7, 1>>] = NoPiece
    /\ ~Covered(<<5, 1>>, BLACK)

\* C27: when update_board raises (a refused move, a refused castling, a move
\* rolled back by the self-check guard) no piece's has-moved flag and no
\* pawn's en-passant target is changed.
C27_RejectedKeepsPieceState ==
    [][(last_attempt'.op \in {"move", "castling"} /\ last_attempt'.result # "ok") =>
         /\ has_moved' = has_moved
         /\ en_passant' = en_passant]_vars

\* A move of a king or rook that had never moved was rolled back by the
\* self-check guard.
C27_Witness ==
    /\ last_attempt.op = "move"
    /\ last_attempt.result = "InvalidMoveError"
    /\ last_attempt.reason = "king in check"
    /\ squares[last_attempt.from].kind \in {KING, ROOK}
    /\ ~has_moved[squares[last_attempt.from]]

\* A castling was refused while a pawn on the board held an en-passant target.
C27_WitnessTarget ==
    /\ last_attempt.op = "castling"
    /\ last_attempt.result = "InvalidMoveError"
    /\ \E p \in Pawns : en_passant[p] # None /\ p \in on_board(Board)

\* C28: a successful Move(from, to) empties from and leaves the moved piece
\* on to; a pawn capturing onto an empty square of a neighbouring file with an
\* opposing pawn beside it (en passant) also empties that pawn's square; every
\* other square keeps its piece, and the king-location field of the side
\* that did not move, and of the mover unless a king moved, is unchanged.
C28_SimpleMoveFrame ==
    [][(last_attempt'.op = "move" /\ last_attempt'.result = "ok") =>
         LET from == last_attempt'.from
             to == last_move'.to
             piece == squares[from]
             color == last_attempt'.color
             beside == <<File(to), Rank(from)>>
             en_passant_capture ==
                 /\ piece.kind = PAWN
                 /\ last_move'.capture
                 /\ squares[to] = NoPiece
                 /\ File(from) # File(to)
                 /\ squares[beside].kind = PAWN
                 /\ squares[beside].color # color
             touched == {from, to} \cup (IF en_passant_capture THEN {beside} ELSE {})
         IN  /\ squares'[from] = NoPiece
             /\ squares'[to] = piece
             /\ en_passant_capture => squares'[beside] = NoPiece
             /\ \A s \in Square \ touched : squares'[s] = squares[s]
             /\ color = WHITE => black_king' = black_king
             /\ color = BLACK => white_king' = white_king
             /\ piece.kind # KING => (white_king' = white_king /\ black_king' = black_king)]_vars

\* C29: castling is decided on the position before the move: when its
\* conditions hold there and the king is not in check, it succeeds also when
\* an opposing piece covers the square the king passes over.
C29_TransitNotTested ==
    [][(/\ last_attempt'.op = "castling"
        /\ CastlingLegal(last_attempt'.color, last_attempt'.to)
        /\ Covered(<<IF File(last_attempt'.to) = 8 THEN 6 ELSE 4,
                     Rank(last_attempt'.to)>>, Opposite(last_attempt'.color)))
          => /\ last_attempt'.result = "ok"
             /\ last_move'.transit_covered]_vars

\* White castled king-side while a black piece covered f1.
C29_Witness ==
    /\ last_attempt.op = "castling"
    /\ Succeeded
    /\ last_move.op = "castling"
    /\ last_move.color = WHITE
    /\ last_move.transit_covered
    /\ squares[<<7, 1>>] = King(WHITE)
    /\ squares[<<6, 1>>] = Piece(ROOK, WHITE, 8)

\* C30: in every position reached by successful moves exactly one white king
\* and exactly one black king are on the board, and no successful move has
\* removed a king.
C30_KingsNeverCaptured ==
    /\ Cardinality(KingsOf(WHITE)) = 1
    /\ Cardinality(KingsOf(BLACK)) = 1
    /\ \A p \in last_move.removed : p.kind # KING

\* The ranks a pawn of color goes forward from a to b.
Forward(color, a, b) ==
    IF color = WHITE THEN Rank(b) - Rank(a) ELSE Rank(a) - Rank(b)

\* C31: every successful pawn move is a straight advance of one or two ranks
\* on the pawn's file, or a capture that goes one rank forward and one file
\* sideways.
C31_PawnGeometry ==
    (Succeeded /\ last_move.op = "move" /\ last_move.piece.kind = PAWN) =>
        LET sideways == Abs(File(last_move.to) - File(last_move.from))
            forward == Forward(last_move.color, last_move.from, last_move.to)
        IN  IF last_move.capture
            THEN sideways = 1 /\ forward = 1
            ELSE sideways = 0 /\ forward \in {1, 2}

\* The position the snapshot holds: the entries of its dictionary and its two
\* king-location items.
SnapshotHolds ==
    [squares |-> memory.dicts[memory.state.squares],
     white_king |-> memory.state.white_king,
     black_king |-> memory.state.black_king]

\* C32: once taken, the snapshot holds the position of the time it was taken
\* whatever add_piece, remove_piece or king-location change follows, before
\* and after a restore; and right after restore_state the square mapping and
\* both king-location fields of the board are those of that time.
C32_SnapshotIsolation ==
    /\ memory.state.squares # 0 => SnapshotHolds = memory.at_save
    /\ memory.op = "restore_state" =>
          /\ squares = memory.at_save.squares
          /\ white_king = memory.at_save.white_king
          /\ black_king = memory.at_save.black_king

\* A snapshot was taken, the board was changed, restored, and changed again.
C32_Witness ==
    /\ memory.state.squares # 0
    /\ memory.board # 1
    /\ memory.op = "add_piece"
    /\ squares # memory.at_save.squares
    /\ memory.dicts[1] # memory.at_save.squares

\* A king-location field was changed after a restore.
C32_WitnessKing ==
    /\ memory.state.squares # 0
    /\ memory.board # 1
    /\ memory.op = "king"
    /\ white_king # memory.at_save.white_king

\* The destination b holds a piece of the colour opposite to the piece on a.
OppositeOnDestination(a, b) ==
    /\ squares[a] # NoPiece
    /\ squares[b] # NoPiece
    /\ squares[a].color # squares[b].color

\* A pawn on a and the empty square b one file sideways and one rank forward.
EnPassantGeometry(a, b) ==
    /\ squares[a].kind = PAWN
    /\ squares[b] = NoPiece
    /\ Abs(File(b) - File(a)) = 1
    /\ Forward(squares[a].color, a, b) = 1

\* C33: Move.is_capture is true exactly when the destination holds a piece of
\* the colour opposite to the piece on the origin, or a pawn moves one file
\* sideways and one rank forward onto an empty square; it is false for every
\* other displacement onto an empty square.
C33_DerivedCapture ==
    AfterMove =>
        \A a \in Square, b \in Square :
            is_capture(Board, Move(a, b, FALSE))
                <=> (OppositeOnDestination(a, b) \/ EnPassantGeometry(a, b))

====
